---- MODULE Spec2Model ----
(***************************************************************************)
(* Model of schematizer/models/sql_entities.py: the SQL schema entities    *)
(* SQLAttribute, SQLColumnDataType, SQLColumn and SQLTable, their          *)
(* structural equality (__eq__), their assertion-style comparison          *)
(* (assert_equal), SQLColumnDataType.to_value and SQLTable.primary_keys.   *)
(*                                                                         *)
(* Python objects are records carrying their class in the field cls.       *)
(* Python's None is the string "None" (for the optional integer            *)
(* primary_key_order it is NoOrder, for the optional string val_string     *)
(* it is NoneString).  A Python set is the sequence of its table entries   *)
(* [hash, key] in table (iteration) order.                                 *)
(***************************************************************************)
EXTENDS Integers, Sequences, FiniteSets, TLC

VARIABLES
    pc,          \* position of the calling program
    kind,        \* class of the objects under comparison
    hashfn,      \* hash() of the running interpreter on attribute tuples
    largs,       \* constructor arguments of lhs
    rargs,       \* constructor arguments of rhs
    lhs,         \* first object (self)
    rhs,         \* second object (other)
    eqRes,       \* result of lhs == rhs
    hashRes,     \* <<hash(lhs), hash(rhs)>>
    setRes,      \* set([lhs, rhs])
    assertRes,   \* outcome of lhs.assert_equal(rhs)
    valArg,      \* the val_string handed to to_value
    override,    \* outcome of the subclass's _string_to_value, if it runs
    toValueRes,  \* outcome of lhs.to_value(valArg) and the calls it made
    pkRes        \* result of lhs.primary_keys

vars == <<pc, kind, hashfn, largs, rargs, lhs, rhs, eqRes, hashRes, setRes,
          assertRes, valArg, override, toValueRes, pkRes>>

-----------------------------------------------------------------------------
(* Bounds *)

\* longest attribute list handed to a constructor
MaxAttrs == 2
\* most columns of a table under comparison
MaxCols == 2
\* most columns of a table whose primary keys are taken
MaxKeyCols == 5
\* largest primary_key_order
MaxOrder == 3
\* longest val_string
MaxLen == 4
\* longest attribute list handed to a data type under comparison
MaxTypeAttrs == 1
\* number of distinct hash values (slots of a set's table)
HashMod == 2

-----------------------------------------------------------------------------
(* Python values *)

None == "None"

\* primary_key_order=None
NoOrder == -1

\* val_string=None; no string holds the symbol "None"
NoneString == <<"None">>

Min(a, b) == IF a <= b THEN a ELSE b

\* all sequences over S of length at most n
SeqsUpTo(S, n) == UNION {[1..k -> S] : k \in 0..n}

\* an object that is an instance of none of the entity classes
OtherObject == [cls |-> "object"]

DataTypeClasses == {"SQLColumnDataType", "MySQLInt", "MySQLVarChar"}

\* isinstance(obj, klass) for the classes of the module
IsInstance(obj, klass) ==
    IF klass = "SQLColumnDataType"
    THEN obj.cls \in DataTypeClasses
    ELSE obj.cls = klass

-----------------------------------------------------------------------------
(* SQLAttribute *)

AttrNames == {"unsigned", "charset"}
AttrValues == {None, "utf8"}

SQLAttribute(name) ==
    [cls |-> "SQLAttribute", name |-> name, value |-> None, has_value |-> FALSE]

create_with_value(name, value) ==
    [SQLAttribute(name) EXCEPT !.value = value, !.has_value = TRUE]

\* every attribute the two constructors build
Attributes ==
    {SQLAttribute(n) : n \in AttrNames}
        \cup {create_with_value(n, v) : n \in AttrNames, v \in AttrValues}

\* __eq__ that forgets has_value
SQLAttribute__eq__NoHasValue(self, other) ==
    /\ IsInstance(other, "SQLAttribute")
    /\ self.name = other.name
    /\ self.value = other.value

SQLAttribute__eq__(self, other) ==
    /\ IsInstance(other, "SQLAttribute")
    /\ self.name = other.name
    /\ self.value = other.value
    /\ self.has_value = other.has_value

\* the tuple __hash__ hashes
HashKey(self) == <<self.name, self.value, self.has_value>>

\* the hash functions an interpreter may have on the tuples of the pool
HashFns(pool) == [{HashKey(a) : a \in pool} -> 0..(HashMod - 1)]

\* hash((self.name, self.value, self.has_value))
SQLAttribute__hash__(h, self) == h[HashKey(self)]

SQLAttribute_assert_equal(self, other) ==
    /\ IsInstance(other, "SQLAttribute")
    /\ self.name = other.name
    /\ self.value = other.value
    /\ self.has_value = other.has_value

-----------------------------------------------------------------------------
(* Python sets of attributes *)

\* set.add: an entry with the same hash and an equal key is kept; a new entry
\* goes to the slot of its hash, behind the entries already probing from it
SetAdd(h, s, x) ==
    LET hx == SQLAttribute__hash__(h, x)
        before == {i \in 1..Len(s) : s[i].hash <= hx}
        n == Cardinality(before)
    IN  IF \E i \in 1..Len(s) : s[i].hash = hx /\ SQLAttribute__eq__(s[i].key, x)
        THEN s
        ELSE SubSeq(s, 1, n) \o <<[hash |-> hx, key |-> x]>>
                 \o SubSeq(s, n + 1, Len(s))

RECURSIVE SetOfPrefix(_, _, _)
SetOfPrefix(h, list, n) ==
    IF n = 0 THEN <<>>
    ELSE SetAdd(h, SetOfPrefix(h, list, n - 1), list[n])

\* set(list)
PySet(h, list) == SetOfPrefix(h, list, Len(list))

\* x in s
SetContains(s, e) ==
    \E i \in 1..Len(s) : s[i].hash = e.hash /\ SQLAttribute__eq__(s[i].key, e.key)

\* s == t for two sets
SetEq(s, t) ==
    /\ Len(s) = Len(t)
    /\ \A i \in 1..Len(s) : SetContains(t, s[i])

\* the elements of a set, in iteration order
Iter(s) == [i \in 1..Len(s) |-> s[i].key]

\* itertools.izip: stops with the shorter sequence
Izip(s, t) == [i \in 1..Min(Len(s), Len(t)) |-> <<s[i], t[i]>>]

\* dict((attr.name, attr) for attr in attributes): the last one of a name wins
AttributesLookup(s) ==
    [n \in {s[i].key.name : i \in 1..Len(s)} |->
        LET last == CHOOSE i \in 1..Len(s) :
                        /\ s[i].key.name = n
                        /\ \A j \in (i + 1)..Len(s) : s[j].key.name # n
        IN  s[last].key]

-----------------------------------------------------------------------------
(* SQLColumnDataType *)

SQLColumnDataType(h, cls, attributes) ==
    LET attrs == PySet(h, attributes)
    IN  [cls |-> cls,
         attributes |-> attrs,
         attributes_lookup |-> AttributesLookup(attrs)]

SQLColumnDataType__eq__(self, other) ==
    /\ IsInstance(other, "SQLColumnDataType")
    /\ SetEq(self.attributes, other.attributes)

\* the characters of the strings handed to to_value
Chars == {"n", "u", "l", "N", "U", "L", "x"}

Strings == SeqsUpTo(Chars, MaxLen)

LowerChar(c) ==
    CASE c = "N" -> "n"
      [] c = "U" -> "u"
      [] c = "L" -> "l"
      [] OTHER -> c

\* str.lower
Lower(s) == [i \in 1..Len(s) |-> LowerChar(s[i])]

\* the outcomes of a call: a returned value or a raised exception
Return(v) == [exc |-> None, value |-> v]
Raise(e) == [exc |-> e, value |-> None]

\* a null check that compares the string as it is
IsNullStringCaseSensitive(val_string) ==
    val_string = NoneString \/ val_string = <<"n", "u", "l", "l">>

_is_null_string(val_string) ==
    val_string = NoneString \/ Lower(val_string) = <<"n", "u", "l", "l">>

\* SQLColumnDataType._string_to_value, which the base class leaves unimplemented
BaseStringToValue(val_string) == Raise("NotImplementedError")

\* what a concrete data type's _string_to_value may do with a string
SubclassOutcomes == {Return(None), Return("converted"), Raise("ValueError")}

\* no subclass method runs on an instance of the base class
NoOverride == Raise("NotImplementedError")

\* self._string_to_value(val_string): the method of self's class; sub is the
\* outcome of the overriding method of a subclass
_string_to_value(self, val_string, sub) ==
    IF self.cls = "SQLColumnDataType"
    THEN BaseStringToValue(val_string)
    ELSE sub

\* to_value that takes every empty value for null
ToValueEmptyIsNull(self, val_string, sub) ==
    IF val_string = <<>> \/ _is_null_string(val_string)
    THEN [outcome |-> Return(None), calls |-> <<>>]
    ELSE LET r == _string_to_value(self, val_string, sub)
         IN  [outcome |-> r, calls |-> <<[arg |-> val_string, outcome |-> r]>>]

\* the outcome of self.to_value(val_string) and the calls of
\* _string_to_value it made
to_value(self, val_string, sub) ==
    IF _is_null_string(val_string)
    THEN [outcome |-> Return(None), calls |-> <<>>]
    ELSE LET r == _string_to_value(self, val_string, sub)
         IN  [outcome |-> r, calls |-> <<[arg |-> val_string, outcome |-> r]>>]

-----------------------------------------------------------------------------
(* SQLColumn *)

\* args: the arguments of SQLColumn(column_name, column_type,
\* primary_key_order, is_nullable, default_value, attributes, doc, **metadata);
\* column_type holds the arguments of the data type's constructor
SQLColumn(h, args) ==
    LET attrs == PySet(h, args.attributes)
    IN  [cls |-> "SQLColumn",
         name |-> args.column_name,
         type |-> SQLColumnDataType(h, args.column_type.cls,
                                    args.column_type.attributes),
         primary_key_order |-> args.primary_key_order,
         is_nullable |-> args.is_nullable,
         default_value |-> args.default_value,
         doc |-> args.doc,
         attributes |-> attrs,
         attributes_lookup |-> AttributesLookup(attrs),
         metadata |-> args.metadata]

SQLColumn__eq__(self, other) ==
    /\ IsInstance(other, "SQLColumn")
    /\ self.name = other.name
    /\ SQLColumnDataType__eq__(self.type, other.type)
    /\ self.primary_key_order = other.primary_key_order
    /\ self.is_nullable = other.is_nullable
    /\ self.default_value = other.default_value
    /\ SetEq(self.attributes, other.attributes)
    /\ self.metadata = other.metadata

\* TRUE iff self.assert_equal(other) returns; FALSE iff an assert of it fails
SQLColumn_assert_equal(self, other) ==
    /\ IsInstance(other, "SQLColumn")
    /\ self.name = other.name
    /\ SQLColumnDataType__eq__(self.type, other.type)
    /\ self.primary_key_order = other.primary_key_order
    /\ self.is_nullable = other.is_nullable
    /\ self.default_value = other.default_value
    /\ LET pairs == Izip(Iter(self.attributes), Iter(other.attributes))
       IN  \A i \in 1..Len(pairs) :
               SQLAttribute_assert_equal(pairs[i][1], pairs[i][2])
    /\ self.metadata = other.metadata

-----------------------------------------------------------------------------
(* SQLTable *)

\* args: the arguments of SQLTable(table_name, columns, doc, **metadata);
\* columns holds the arguments of each column's constructor
SQLTable(h, args) ==
    [cls |-> "SQLTable",
     name |-> args.table_name,
     columns |-> [i \in 1..Len(args.columns) |-> SQLColumn(h, args.columns[i])],
     doc |-> args.doc,
     metadata |-> args.metadata]

\* list.__eq__ on two lists of columns
ColumnsEq(s, t) ==
    /\ Len(s) = Len(t)
    /\ \A i \in 1..Len(s) : SQLColumn__eq__(s[i], t[i])

SQLTable__eq__(self, other) ==
    /\ IsInstance(other, "SQLTable")
    /\ self.name = other.name
    /\ ColumnsEq(self.columns, other.columns)
    /\ self.metadata = other.metadata

\* TRUE iff self.assert_equal(other) returns; FALSE iff an assert of it fails
SQLTable_assert_equal(self, other) ==
    /\ IsInstance(other, "SQLTable")
    /\ self.name = other.name
    /\ LET pairs == Izip(self.columns, other.columns)
       IN  \A i \in 1..Len(pairs) :
               SQLColumn_assert_equal(pairs[i][1], pairs[i][2])
    /\ self.metadata = other.metadata

\* bool(primary_key_order): None and 0 are false
Truthy(order) == order # NoOrder /\ order # 0

\* (col for col in columns if col.primary_key_order), over the first n columns
RECURSIVE KeyedPrefix(_, _)
KeyedPrefix(columns, n) ==
    IF n = 0 THEN <<>>
    ELSE IF Truthy(columns[n].primary_key_order)
         THEN Append(KeyedPrefix(columns, n - 1), columns[n])
         ELSE KeyedPrefix(columns, n - 1)

\* sorted(s, key=lambda c: c.primary_key_order): stable, ascending
RECURSIVE SortedPrefix(_, _)
SortedPrefix(s, n) ==
    IF n = 0 THEN <<>>
    ELSE LET done == SortedPrefix(s, n - 1)
             k == Cardinality({i \in 1..Len(done) :
                     done[i].primary_key_order <= s[n].primary_key_order})
         IN  SubSeq(done, 1, k) \o <<s[n]>> \o SubSeq(done, k + 1, Len(done))

\* primary_keys that leaves the key columns in the table's order
PrimaryKeysUnsorted(self) == KeyedPrefix(self.columns, Len(self.columns))

primary_keys(self) ==
    LET keyed == KeyedPrefix(self.columns, Len(self.columns))
    IN  SortedPrefix(keyed, Len(keyed))

-----------------------------------------------------------------------------
(* The calling program: it builds two objects, compares them with ==, and   *)
(* then with assert_equal; or it builds one object and calls a method.     *)

Unset == "unset"

\* a Python bool as the program sees it
Bool(b) == IF b THEN "True" ELSE "False"

\* the outcome of an assert_equal call
AssertOutcome(returns) == IF returns THEN "returned" ELSE "AssertionError"

\* hash() where no attribute is ever hashed
NoHash == <<>>

NoResults ==
    /\ eqRes = Unset
    /\ hashRes = Unset
    /\ setRes = Unset
    /\ assertRes = Unset
    /\ toValueRes = Unset
    /\ pkRes = Unset

\* SQLColumn's defaults for the arguments a caller leaves out
ColumnArgs(name, type, order, attributes) ==
    [column_name |-> name,
     column_type |-> type,
     primary_key_order |-> order,
     is_nullable |-> TRUE,
     default_value |-> None,
     attributes |-> attributes,
     doc |-> None,
     metadata |-> {}]

\* the arguments of the base data type without attributes
PlainType == [cls |-> "SQLColumnDataType", attributes |-> <<>>]

-----------------------------------------------------------------------------
(* SQLAttribute: ==, hash, set membership, assert_equal *)

InitAttribute ==
    /\ pc = "built"
    /\ kind = "attribute"
    /\ hashfn \in HashFns(Attributes)
    /\ lhs \in Attributes
    /\ rhs \in Attributes \cup {OtherObject}
    /\ largs = lhs
    /\ rargs = rhs
    /\ valArg = Unset
    /\ override = Unset
    /\ NoResults

AttributeEq ==
    /\ pc = "built"
    /\ kind = "attribute"
    /\ eqRes' = Bool(SQLAttribute__eq__(lhs, rhs))
    /\ pc' = "compared"
    /\ UNCHANGED <<kind, hashfn, largs, rargs, lhs, rhs, hashRes, setRes,
                   assertRes, valArg, override, toValueRes, pkRes>>

AttributeHash ==
    /\ pc = "compared"
    /\ kind = "attribute"
    /\ IsInstance(rhs, "SQLAttribute")
    /\ hashRes' = <<SQLAttribute__hash__(hashfn, lhs),
                    SQLAttribute__hash__(hashfn, rhs)>>
    /\ pc' = "hashed"
    /\ UNCHANGED <<kind, hashfn, largs, rargs, lhs, rhs, eqRes, setRes,
                   assertRes, valArg, override, toValueRes, pkRes>>

AttributeSet ==
    /\ pc = "hashed"
    /\ kind = "attribute"
    /\ setRes' = PySet(hashfn, <<lhs, rhs>>)
    /\ pc' = "collected"
    /\ UNCHANGED <<kind, hashfn, largs, rargs, lhs, rhs, eqRes, hashRes,
                   assertRes, valArg, override, toValueRes, pkRes>>

AttributeAssertEqual ==
    /\ kind = "attribute"
    /\ \/ pc = "collected"
       \/ pc = "compared" /\ ~IsInstance(rhs, "SQLAttribute")
    /\ assertRes' = AssertOutcome(SQLAttribute_assert_equal(lhs, rhs))
    /\ pc' = "asserted"
    /\ UNCHANGED <<kind, hashfn, largs, rargs, lhs, rhs, eqRes, hashRes,
                   setRes, valArg, override, toValueRes, pkRes>>

NextAttribute ==
    \/ AttributeEq
    \/ AttributeHash
    \/ AttributeSet
    \/ AttributeAssertEqual

SpecAttribute == InitAttribute /\ [][NextAttribute]_vars

-----------------------------------------------------------------------------
(* SQLColumnDataType.to_value *)

InitToValue ==
    /\ pc = "built"
    /\ kind = "datatype"
    /\ hashfn = NoHash
    /\ \E cls \in DataTypeClasses :
           /\ largs = [cls |-> cls, attributes |-> <<>>]
           /\ lhs = SQLColumnDataType(hashfn, cls, <<>>)
           /\ override \in IF cls = "SQLColumnDataType"
                           THEN {NoOverride}
                           ELSE SubclassOutcomes
    /\ rargs = Unset
    /\ rhs = Unset
    /\ valArg \in Strings \cup {NoneString}
    /\ NoResults

CallToValue ==
    /\ pc = "built"
    /\ kind = "datatype"
    /\ toValueRes' = to_value(lhs, valArg, override)
    /\ pc' = "done"
    /\ UNCHANGED <<kind, hashfn, largs, rargs, lhs, rhs, eqRes, hashRes,
                   setRes, assertRes, valArg, override, pkRes>>

NextToValue == CallToValue

SpecToValue == InitToValue /\ [][NextToValue]_vars

-----------------------------------------------------------------------------
(* SQLTable.primary_keys *)

\* the names of the columns of a table, by position
KeyColumnNames == <<"c1", "c2", "c3", "c4", "c5", "c6", "c7", "c8">>

\* the values a caller passes as primary_key_order
Orders == {NoOrder} \cup (0..MaxOrder)

InitPrimaryKeys ==
    /\ pc = "built"
    /\ kind = "table"
    /\ hashfn = NoHash
    /\ \E orders \in SeqsUpTo(Orders, MaxKeyCols) :
           largs = [table_name |-> "t",
                    columns |-> [i \in 1..Len(orders) |->
                        ColumnArgs(KeyColumnNames[i], PlainType, orders[i], <<>>)],
                    doc |-> None,
                    metadata |-> {}]
    /\ lhs = SQLTable(hashfn, largs)
    /\ rargs = Unset
    /\ rhs = Unset
    /\ valArg = Unset
    /\ override = Unset
    /\ NoResults

CallPrimaryKeys ==
    /\ pc = "built"
    /\ kind = "table"
    /\ pkRes' = primary_keys(lhs)
    /\ pc' = "done"
    /\ UNCHANGED <<kind, hashfn, largs, rargs, lhs, rhs, eqRes, hashRes,
                   setRes, assertRes, valArg, override, toValueRes>>

NextPrimaryKeys == CallPrimaryKeys

SpecPrimaryKeys == InitPrimaryKeys /\ [][NextPrimaryKeys]_vars

-----------------------------------------------------------------------------
(* Two data types, two columns or two tables under comparison *)

\* the attributes of the columns under comparison: one without a value, and
\* two of one name with different values
ColumnAttrPool ==
    {SQLAttribute("unsigned"),
     create_with_value("charset", "utf8"),
     create_with_value("charset", None)}

\* the attributes of the data types, and of the columns of the tables
TypeAttrPool ==
    {create_with_value("charset", "utf8"), create_with_value("charset", None)}

\* the arguments of the data types of the columns under comparison
TypeArgs ==
    {[cls |-> c, attributes |-> l] :
        c \in {"SQLColumnDataType", "MySQLInt"},
        l \in SeqsUpTo(TypeAttrPool, MaxTypeAttrs)}

\* args, and args with one argument other than column_type and attributes
\* replaced
OneArgumentChanged(args) ==
    {args,
     [args EXCEPT !.column_name = "name"],
     [args EXCEPT !.primary_key_order = 1],
     [args EXCEPT !.is_nullable = FALSE],
     [args EXCEPT !.default_value = "0"],
     [args EXCEPT !.doc = "the id"],
     [args EXCEPT !.metadata = {<<"aliases", "pk">>}]}

\* the arguments of the columns of the tables under comparison
TableColumnArgs ==
    {ColumnArgs("id", [cls |-> "SQLColumnDataType", attributes |-> t],
                NoOrder, a) :
        t \in SeqsUpTo(TypeAttrPool, MaxTypeAttrs),
        a \in SeqsUpTo(TypeAttrPool, MaxAttrs)}

TableArgs(columns) ==
    [table_name |-> "t", columns |-> columns, doc |-> None, metadata |-> {}]

Reversed(s) == [i \in 1..Len(s) |-> s[Len(s) + 1 - i]]

\* the column lists a second table is built from, given the first one's:
\* the same list, the list reversed, a prefix of it, the list with one more
\* column, and the list with one column replaced
ColumnListsNear(columns) ==
    {columns, Reversed(columns)}
        \cup {SubSeq(columns, 1, n) : n \in 0..Len(columns)}
        \cup {Append(columns, c) :
                 c \in IF Len(columns) < MaxCols THEN TableColumnArgs ELSE {}}
        \cup {[columns EXCEPT ![i] = c] :
                 i \in 1..Len(columns), c \in TableColumnArgs}

\* the arguments a second table is built from, given the first one's
TableArgsNear(args) ==
    {[args EXCEPT !.columns = l] : l \in ColumnListsNear(args.columns)}
        \cup {[args EXCEPT !.table_name = "u"],
              [args EXCEPT !.doc = "the table"],
              [args EXCEPT !.metadata = {<<"namespace", "ns">>}]}

\* nothing has been called on the two objects
NothingCalled ==
    /\ pc = "built"
    /\ valArg = Unset
    /\ override = Unset
    /\ NoResults

InitDataTypes ==
    /\ NothingCalled
    /\ kind = "datatype"
    /\ hashfn \in HashFns(ColumnAttrPool)
    /\ \E lc \in DataTypeClasses, rc \in DataTypeClasses :
       \E la \in SeqsUpTo(ColumnAttrPool, MaxAttrs),
          ra \in SeqsUpTo(ColumnAttrPool, MaxAttrs) :
           /\ largs = [cls |-> lc, attributes |-> la]
           /\ rargs = [cls |-> rc, attributes |-> ra]
    /\ lhs = SQLColumnDataType(hashfn, largs.cls, largs.attributes)
    /\ rhs = SQLColumnDataType(hashfn, rargs.cls, rargs.attributes)

InitColumns ==
    /\ NothingCalled
    /\ kind = "column"
    /\ hashfn \in HashFns(ColumnAttrPool)
    /\ \E lt \in TypeArgs, rt \in TypeArgs :
       \E la \in SeqsUpTo(ColumnAttrPool, MaxAttrs),
          ra \in SeqsUpTo(ColumnAttrPool, MaxAttrs) :
           /\ largs = ColumnArgs("id", lt, NoOrder, la)
           /\ rargs \in OneArgumentChanged(ColumnArgs("id", rt, NoOrder, ra))
    /\ lhs = SQLColumn(hashfn, largs)
    /\ rhs = SQLColumn(hashfn, rargs)

InitTables ==
    /\ NothingCalled
    /\ kind = "table"
    /\ hashfn \in HashFns(TypeAttrPool)
    /\ \E columns \in SeqsUpTo(TableColumnArgs, MaxCols) :
           /\ largs = TableArgs(columns)
           /\ rargs \in TableArgsNear(largs)
    /\ lhs = SQLTable(hashfn, largs)
    /\ rhs = SQLTable(hashfn, rargs)

Init == InitDataTypes \/ InitColumns \/ InitTables

DataTypeEq ==
    /\ pc = "built"
    /\ kind = "datatype"
    /\ eqRes' = Bool(SQLColumnDataType__eq__(lhs, rhs))
    /\ pc' = "compared"
    /\ UNCHANGED <<kind, hashfn, largs, rargs, lhs, rhs, hashRes, setRes,
                   assertRes, valArg, override, toValueRes, pkRes>>

ColumnEq ==
    /\ pc = "built"
    /\ kind = "column"
    /\ eqRes' = Bool(SQLColumn__eq__(lhs, rhs))
    /\ pc' = "compared"
    /\ UNCHANGED <<kind, hashfn, largs, rargs, lhs, rhs, hashRes, setRes,
                   assertRes, valArg, override, toValueRes, pkRes>>

ColumnAssertEqual ==
    /\ pc = "compared"
    /\ kind = "column"
    /\ assertRes' = AssertOutcome(SQLColumn_assert_equal(lhs, rhs))
    /\ pc' = "asserted"
    /\ UNCHANGED <<kind, hashfn, largs, rargs, lhs, rhs, eqRes, hashRes,
                   setRes, valArg, override, toValueRes, pkRes>>

TableEq ==
    /\ pc = "built"
    /\ kind = "table"
    /\ eqRes' = Bool(SQLTable__eq__(lhs, rhs))
    /\ pc' = "compared"
    /\ UNCHANGED <<kind, hashfn, largs, rargs, lhs, rhs, hashRes, setRes,
                   assertRes, valArg, override, toValueRes, pkRes>>

TableAssertEqual ==
    /\ pc = "compared"
    /\ kind = "table"
    /\ assertRes' = AssertOutcome(SQLTable_assert_equal(lhs, rhs))
    /\ pc' = "asserted"
    /\ UNCHANGED <<kind, hashfn, largs, rargs, lhs, rhs, eqRes, hashRes,
                   setRes, valArg, override, toValueRes, pkRes>>

Next ==
    \/ DataTypeEq
    \/ ColumnEq
    \/ ColumnAssertEqual
    \/ TableEq
    \/ TableAssertEqual

Spec == Init /\ [][Next]_vars

\* the program that compares two data types
NextDataTypes == DataTypeEq

SpecDataTypes == InitDataTypes /\ [][NextDataTypes]_vars

\* the program that compares two columns
NextColumns == ColumnEq \/ ColumnAssertEqual

SpecColumns == InitColumns /\ [][NextColumns]_vars

\* the program that compares two tables
NextTables == TableEq \/ TableAssertEqual

SpecTables == InitTables /\ [][NextTables]_vars

-----------------------------------------------------------------------------
(* Properties of to_value (checked under SpecToValue) *)

\* the strings whose lower-casing is 'null'
NullSpellings ==
    {<<a, b, c, d>> : a \in {"n", "N"}, b \in {"u", "U"},
                      c \in {"l", "L"}, d \in {"l", "L"}}

\* C2: on every data type, the base class included, to_value(None) and
\* to_value(s) for every spelling s of 'null' in any letter case return None,
\* without raising and without a call of _string_to_value.
C2_NullInputReturnsNone ==
    (pc = "done" /\ kind = "datatype"
        /\ valArg \in NullSpellings \cup {NoneString})
    => toValueRes = [outcome |-> Return(None), calls |-> <<>>]

\* the base class was handed 'NULL' and returned None
C2_Witness ==
    /\ pc = "done"
    /\ kind = "datatype"
    /\ lhs.cls = "SQLColumnDataType"
    /\ valArg = <<"N", "U", "L", "L">>
    /\ toValueRes.outcome = Return(None)

-----------------------------------------------------------------------------
(* Properties of primary_keys (checked under SpecPrimaryKeys) *)

\* no two columns carry the same primary_key_order
DistinctOrders(columns) ==
    \A i, j \in 1..Len(columns) :
        (i # j /\ columns[i].primary_key_order # NoOrder)
            => columns[i].primary_key_order # columns[j].primary_key_order

\* keys holds exactly the columns with a primary_key_order, each once, in
\* strictly ascending primary_key_order
KeyedColumnsAscending(columns, keys) ==
    /\ \A j \in 1..Len(keys) :
           /\ keys[j].primary_key_order # NoOrder
           /\ \E i \in 1..Len(columns) : columns[i] = keys[j]
    /\ \A i \in 1..Len(columns) :
           columns[i].primary_key_order # NoOrder
               => Cardinality({j \in 1..Len(keys) : keys[j] = columns[i]}) = 1
    /\ \A j, k \in 1..Len(keys) :
           j < k => keys[j].primary_key_order < keys[k].primary_key_order

\* C4, as stated: for pairwise distinct primary_key_order values (or None),
\* primary_keys returns exactly the columns whose primary_key_order is set,
\* each once, in strictly ascending primary_key_order.
C4_AnyDistinctOrders ==
    (pc = "done" /\ kind = "table" /\ DistinctOrders(lhs.columns))
    => KeyedColumnsAscending(lhs.columns, pkRes)

\* C4, amended: the same for pairwise distinct orders that are positive
\* (1-based) or None; a column whose primary_key_order is 0 is left out.
C4_PositiveDistinctOrders ==
    (pc = "done" /\ kind = "table" /\ DistinctOrders(lhs.columns)
        /\ \A i \in 1..Len(lhs.columns) : lhs.columns[i].primary_key_order # 0)
    => KeyedColumnsAscending(lhs.columns, pkRes)

\* the orders [2, None, 1, None, 3] gave the columns with the orders 1, 2, 3
C4_Witness ==
    /\ pc = "done"
    /\ kind = "table"
    /\ [i \in 1..Len(lhs.columns) |-> lhs.columns[i].primary_key_order]
           = <<2, NoOrder, 1, NoOrder, 3>>
    /\ [j \in 1..Len(pkRes) |-> pkRes[j].name] = <<"c3", "c1", "c5">>

-----------------------------------------------------------------------------
(* Properties of SQLAttribute (checked under SpecAttribute) *)

\* C6: two attributes are equal iff name, value and has_value are equal;
\* equal attributes have equal hashes; and a set built from the two holds
\* both as distinct members iff they are not equal (so SQLAttribute(n) and
\* create_with_value(n, None) are two members).
C6_AttributeEqualityAndHash ==
    (kind = "attribute" /\ IsInstance(rhs, "SQLAttribute"))
    => /\ pc \in {"compared", "hashed", "collected", "asserted"}
           => (eqRes = "True" <=> /\ lhs.name = rhs.name
                                  /\ lhs.value = rhs.value
                                  /\ lhs.has_value = rhs.has_value)
       /\ pc \in {"hashed", "collected", "asserted"}
           => (eqRes = "True" => hashRes[1] = hashRes[2])
       /\ pc \in {"collected", "asserted"}
           => /\ eqRes = "True" => Iter(setRes) = <<lhs>>
              /\ eqRes = "False" => {setRes[i].key : i \in 1..Len(setRes)} = {lhs, rhs}
                                    /\ Len(setRes) = 2

\* SQLAttribute('charset') and create_with_value('charset', None) compared
\* unequal and are two members of a set, although their hashes collide
C6_Witness ==
    /\ pc = "collected"
    /\ kind = "attribute"
    /\ lhs = SQLAttribute("charset")
    /\ rhs = create_with_value("charset", None)
    /\ eqRes = "False"
    /\ hashRes[1] = hashRes[2]
    /\ Len(setRes) = 2

-----------------------------------------------------------------------------
(* Properties of the comparisons (checked under SpecDataTypes, SpecColumns *)
(* and SpecTables)                                                        *)

\* the members of a set
Members(s) == {s[i].key : i \in 1..Len(s)}

\* C1: two data types are equal iff they are of the same concrete class and
\* their attribute sets are equal.
C1_EqualIffSameVariantAndAttributes ==
    (pc = "compared" /\ kind = "datatype")
    => (eqRes = "True" <=> /\ lhs.cls = rhs.cls
                           /\ Members(lhs.attributes) = Members(rhs.attributes))

\* t holds the elements of s in another order
IsPermutation(s, t) ==
    /\ Len(s) = Len(t)
    /\ \E p \in Permutations(1..Len(s)) : \A i \in 1..Len(s) : t[i] = s[p[i]]

\* C5: two tables of the same name and metadata whose column lists hold the
\* same columns but differ at some position are not equal, and assert_equal
\* raises.
C5_ColumnOrderMatters ==
    (pc = "asserted" /\ kind = "table"
        /\ lhs.name = rhs.name
        /\ lhs.metadata = rhs.metadata
        /\ IsPermutation(lhs.columns, rhs.columns)
        /\ \E i \in 1..Len(lhs.columns) : lhs.columns[i] # rhs.columns[i])
    => (eqRes = "False" /\ assertRes = "AssertionError")

\* the fields in which two columns differ
DifferingFields(c, d) ==
    {f \in {"name", "type", "primary_key_order", "is_nullable",
            "default_value", "attributes", "metadata", "doc"} :
        CASE f = "name" -> c.name # d.name
          [] f = "type" -> \/ c.type.cls # d.type.cls
                           \/ Members(c.type.attributes) # Members(d.type.attributes)
          [] f = "primary_key_order" -> c.primary_key_order # d.primary_key_order
          [] f = "is_nullable" -> c.is_nullable # d.is_nullable
          [] f = "default_value" -> c.default_value # d.default_value
          [] f = "attributes" -> Members(c.attributes) # Members(d.attributes)
          [] f = "metadata" -> c.metadata # d.metadata
          [] f = "doc" -> c.doc # d.doc}

\* C7: two columns that differ only in doc are equal and assert_equal
\* returns; two columns that differ in one of name, type, primary_key_order,
\* is_nullable, default_value, attributes and metadata are not equal and
\* assert_equal raises.
C7_SevenFieldsNeverDoc ==
    (pc = "asserted" /\ kind = "column")
    => LET differing == DifferingFields(lhs, rhs)
       IN  /\ differing = {"doc"}
               => (eqRes = "True" /\ assertRes = "returned")
           /\ (Cardinality(differing) = 1 /\ differing # {"doc"})
               => (eqRes = "False" /\ assertRes = "AssertionError")

\* the attribute list to with the value of one attribute of the list from
\* replaced by another value
OneValueChanged(from, to) ==
    \E p \in 1..Len(from) : \E v \in AttrValues :
        /\ from[p].has_value
        /\ v # from[p].value
        /\ to = [from EXCEPT ![p].value = v]

\* the table arguments b are the arguments a with the value of exactly one
\* attribute changed, on a column's attribute list or on that of its type
OneAttributeValueChanged(a, b) ==
    \E i \in 1..Len(a.columns) :
        \/ \E l \in SeqsUpTo(TypeAttrPool, MaxAttrs) :
               /\ OneValueChanged(a.columns[i].attributes, l)
               /\ b = [a EXCEPT !.columns[i].attributes = l]
        \/ \E l \in SeqsUpTo(TypeAttrPool, MaxTypeAttrs) :
               /\ OneValueChanged(a.columns[i].column_type.attributes, l)
               /\ b = [a EXCEPT !.columns[i].column_type.attributes = l]

\* C8: a table built a second time from the same constructor arguments is
\* equal to the first and assert_equal returns; a table built from the
\* arguments with the value of exactly one attribute changed is not equal and
\* assert_equal raises.
C8_RoundTrip ==
    (pc = "asserted" /\ kind = "table")
    => /\ rargs = largs => (eqRes = "True" /\ assertRes = "returned")
       /\ OneAttributeValueChanged(largs, rargs)
              => (eqRes = "False" /\ assertRes = "AssertionError")

\* C9: whatever the iteration orders of the two attribute sets, assert_equal
\* returns on two columns that are equal.
C9_NoFalseMismatch ==
    (pc = "asserted" /\ kind = "column" /\ eqRes = "True")
    => assertRes = "returned"

\* C10: if assert_equal returns on two tables, the tables are equal.
C10_AssertAtLeastAsStrict ==
    (pc = "asserted" /\ kind = "table" /\ assertRes = "returned")
    => eqRes = "True"

====
